---- MODULE Spec2Model ----
(***************************************************************************)
(* Vehicle damage assessment pipeline: the LangGraph orchestrator          *)
(* (orchestrator/damage_assessment_graph.py), the four agents it calls     *)
(* (agents/*.py), the IoU primitive (utils/geometry.py) and the            *)
(* configuration tables (utils/config.py).                                 *)
(*                                                                         *)
(* Conventions of the model                                                *)
(*  - A bounding box is a tuple <<x1, y1, x2, y2>> of integers.            *)
(*  - A float that the code only compares (an IoU) is an exact fraction    *)
(*    <<numerator, denominator>> with a positive denominator.              *)
(*  - Confidences and quality scores are integers in thousandths before    *)
(*    round(x, 2) and in hundredths after it.                              *)
(*  - Wall-clock measurements (processing_time_ms) are not modelled: every *)
(*    such field holds 0.                                                  *)
(*  - An image path is a sequence of tokens: words and the separator "/". *)
(*    lower() acts on the words, and `"w" in path` asks for the word w.    *)
(*  - A Python list that is shared by reference (the cost_range lists of   *)
(*    SEVERITY_RULES) is represented by a reference to its owner, and is   *)
(*    read through Deref.                                                  *)
(***************************************************************************)
EXTENDS Integers, Sequences, FiniteSets, TLC

VARIABLES
    pc,                         \* node of the graph about to run for the current claim
    state,                      \* the GraphState of the current claim
    invoked,                    \* agents whose process() was entered in this run, in order
    runs,                       \* claims started so far in this process
    detection_agent,            \* detection_agent.model: "loaded" or "None"
    part_agent,                 \* part_agent.model: "loaded" or "None"
    SEVERITY_RULES,             \* utils.config.SEVERITY_RULES (a module-level dict)
    DAMAGE_TO_SEVERITY_MAPPING, \* utils.config.DAMAGE_TO_SEVERITY_MAPPING (a module-level dict)
    part_call,                  \* last direct call of PartIdentificationAgent.process
    severity_call,              \* last direct call of MockSeverityAssessmentAgent.process
    severity_calls,             \* number of direct Severity calls so far
    previous_report,            \* the final report the claim before this one returned
    iou_call,                   \* last direct call of calculate_iou
    detection_outcome,          \* what became of the damage model's call in this run
    stream_closed               \* the consumer has left the stream of the current run

vars == <<pc, state, invoked, runs, detection_agent, part_agent, SEVERITY_RULES,
          DAMAGE_TO_SEVERITY_MAPPING, part_call, severity_call, severity_calls,
          previous_report, iou_call, detection_outcome, stream_closed>>

(***************************************************************************)
(* Bounds of the model.                                                    *)
(***************************************************************************)
MaxDamages == 2
MaxParts == 2
MaxRuns == 2
MaxCalls == 2
MaxCoord == 2

SeqsUpTo(S, n) == UNION {[1..k -> S] : k \in 0..n}

Max(a, b) == IF a >= b THEN a ELSE b
Min(a, b) == IF a <= b THEN a ELSE b

\* Get(d, k, default): dict.get(k, default) on a function/record d.
Get(d, k, default) == IF k \in DOMAIN d THEN d[k] ELSE default

(***************************************************************************)
(* Exact fractions standing for the floats the code compares.              *)
(***************************************************************************)
FracGt(a, b) == a[1] * b[2] > b[1] * a[2]
FracEq(a, b) == a[1] * b[2] = b[1] * a[2]

(***************************************************************************)
(* utils/geometry.py                                                       *)
(***************************************************************************)
\* The function, were a negative extent of the intersection not clamped to 0.
calculate_iou_unclamped(boxA, boxB) ==
    LET xA == Max(boxA[1], boxB[1])
        yA == Max(boxA[2], boxB[2])
        xB == Min(boxA[3], boxB[3])
        yB == Min(boxA[4], boxB[4])
        interArea == (xB - xA) * (yB - yA)
        boxAArea == (boxA[3] - boxA[1]) * (boxA[4] - boxA[2])
        boxBArea == (boxB[3] - boxB[1]) * (boxB[4] - boxB[2])
        unionArea == boxAArea + boxBArea - interArea
    IN  IF unionArea > 0 THEN <<interArea, unionArea>> ELSE <<0, 1>>

\* The function, were the division made whatever the union area is.
calculate_iou_unguarded(boxA, boxB) ==
    LET xA == Max(boxA[1], boxB[1])
        yA == Max(boxA[2], boxB[2])
        xB == Min(boxA[3], boxB[3])
        yB == Min(boxA[4], boxB[4])
        interArea == Max(0, xB - xA) * Max(0, yB - yA)
        boxAArea == (boxA[3] - boxA[1]) * (boxA[4] - boxA[2])
        boxBArea == (boxB[3] - boxB[1]) * (boxB[4] - boxB[2])
        unionArea == boxAArea + boxBArea - interArea
    IN  <<interArea, unionArea>>

\* calculate_iou: interArea / unionArea as an exact fraction, 0 when the union
\* area is not positive.
calculate_iou(boxA, boxB) ==
    LET xA == Max(boxA[1], boxB[1])
        yA == Max(boxA[2], boxB[2])
        xB == Min(boxA[3], boxB[3])
        yB == Min(boxA[4], boxB[4])
        interArea == Max(0, xB - xA) * Max(0, yB - yA)
        boxAArea == (boxA[3] - boxA[1]) * (boxA[4] - boxA[2])
        boxBArea == (boxB[3] - boxB[1]) * (boxB[4] - boxB[2])
        unionArea == boxAArea + boxBArea - interArea
    IN  IF unionArea > 0 THEN <<interArea, unionArea>> ELSE <<0, 1>>

(***************************************************************************)
(* agents/part_identification_agent.py                                     *)
(***************************************************************************)
PART_CLASS_MAP ==
    [i \in 0..22 |->
        CASE i = 0 -> "back_bumper"      [] i = 1 -> "back_door"
          [] i = 2 -> "back_glass"       [] i = 3 -> "back_left_door"
          [] i = 4 -> "back_left_light"  [] i = 5 -> "back_light"
          [] i = 6 -> "back_right_door"  [] i = 7 -> "back_right_light"
          [] i = 8 -> "front_bumper"     [] i = 9 -> "front_door"
          [] i = 10 -> "front_glass"     [] i = 11 -> "front_left_door"
          [] i = 12 -> "front_left_light" [] i = 13 -> "front_light"
          [] i = 14 -> "front_right_door" [] i = 15 -> "front_right_light"
          [] i = 16 -> "hood"            [] i = 17 -> "left_mirror"
          [] i = 18 -> "object"          [] i = 19 -> "right_mirror"
          [] i = 20 -> "tailgate"        [] i = 21 -> "trunk"
          [] i = 22 -> "wheel"]

\* f"{part_name.upper()[:4]}-001"
PartId(part_name) ==
    CASE part_name \in {"back_bumper", "back_door", "back_glass", "back_left_door",
                        "back_left_light", "back_light", "back_right_door",
                        "back_right_light"} -> "BACK-001"
      [] part_name \in {"front_bumper", "front_door", "front_glass", "front_left_door",
                        "front_left_light", "front_light", "front_right_door",
                        "front_right_light"} -> "FRON-001"
      [] part_name = "hood" -> "HOOD-001"
      [] part_name = "left_mirror" -> "LEFT-001"
      [] part_name = "object" -> "OBJE-001"
      [] part_name = "right_mirror" -> "RIGH-001"
      [] part_name = "tailgate" -> "TAIL-001"
      [] part_name = "trunk" -> "TRUN-001"
      [] part_name = "wheel" -> "WHEE-001"
      [] OTHER -> "UNKN-001"

\* IOU_THRESHOLD = 0.01
IOU_THRESHOLD == <<1, 100>>

\* The comparison, were it `iou >= best_iou`: a later part of equal IoU wins.
BetterIouOrEqual(iou, best_iou) == FracGt(iou, best_iou) \/ FracEq(iou, best_iou)

\* `if iou > best_iou` of the inner loop.
BetterIou(iou, best_iou) == FracGt(iou, best_iou)

\* The inner loop over detected_parts, from index i on. best_part_match is an
\* index into detected_parts, 0 standing for None.
RECURSIVE ScanParts(_, _, _, _, _)
ScanParts(damage, detected_parts, i, best_iou, best_part_match) ==
    IF i > Len(detected_parts)
    THEN [best_iou |-> best_iou, best_part_match |-> best_part_match]
    ELSE LET iou == calculate_iou(damage.bbox, detected_parts[i].bbox)
         IN  IF BetterIou(iou, best_iou)
             THEN ScanParts(damage, detected_parts, i + 1, iou, i)
             ELSE ScanParts(damage, detected_parts, i + 1, best_iou, best_part_match)

\* The test, were the comparison with the threshold turned round.
AcceptsBelow(best, threshold) ==
    best.best_part_match # 0 /\ FracGt(threshold, best.best_iou)

\* `if best_part_match and best_iou > self.IOU_THRESHOLD`
Accepts(best, threshold) ==
    best.best_part_match # 0 /\ FracGt(best.best_iou, threshold)

\* The record, were it given the bbox of the part instead of the damage's.
PartDataWithPartBox(damage, part, pct) ==
    LET part_name == Get(PART_CLASS_MAP, part.class_id, "unknown_part")
    IN  [part_name |-> part_name,
         part_id |-> PartId(part_name),
         damage_percentage |-> pct,
         bbox |-> part.bbox,
         damage_type |-> Get(damage, "damage_type", "unknown")]

\* The part_data record appended for a matched damage.
PartData(damage, part, pct) ==
    LET part_name == Get(PART_CLASS_MAP, part.class_id, "unknown_part")
    IN  [part_name |-> part_name,
         part_id |-> PartId(part_name),
         damage_percentage |-> pct,
         bbox |-> damage.bbox,
         damage_type |-> Get(damage, "damage_type", "unknown")]

\* The outer loop, were an unmatched damage given a default part instead of
\* being dropped.
RECURSIVE AssociateFromDefaulting(_, _, _, _, _)
AssociateFromDefaulting(damage_detections, detected_parts, threshold, pcts, i) ==
    IF i > Len(damage_detections) THEN <<>>
    ELSE LET damage == damage_detections[i]
             best == ScanParts(damage, detected_parts, 1, <<0, 1>>, 0)
             rest == AssociateFromDefaulting(damage_detections, detected_parts,
                                             threshold, pcts, i + 1)
             part == IF Accepts(best, threshold)
                     THEN detected_parts[best.best_part_match]
                     ELSE [bbox |-> damage.bbox, class_id |-> -1]
         IN  <<PartData(damage, part, pcts[i])>> \o rest

\* The outer loop over damage_detections, from index i on. pcts[i] is the value
\* random.randint(15, 60) returns if damage i is matched.
RECURSIVE AssociateFrom(_, _, _, _, _)
AssociateFrom(damage_detections, detected_parts, threshold, pcts, i) ==
    IF i > Len(damage_detections) THEN <<>>
    ELSE LET damage == damage_detections[i]
             best == ScanParts(damage, detected_parts, 1, <<0, 1>>, 0)
             rest == AssociateFrom(damage_detections, detected_parts, threshold, pcts, i + 1)
         IN  IF Accepts(best, threshold)
             THEN <<PartData(damage, detected_parts[best.best_part_match], pcts[i])>> \o rest
             ELSE rest

AssociateParts(damage_detections, detected_parts, threshold, pcts) ==
    AssociateFrom(damage_detections, detected_parts, threshold, pcts, 1)

\* The boxes the parts model returned, decoded into detected_parts.
DecodeParts(boxes) ==
    [i \in 1..Len(boxes) |-> [bbox |-> boxes[i].xyxy, class_id |-> boxes[i].cls]]

\* `if not self.model or not damage_detections`
PartEarlyReturn(model, damage_detections) ==
    model = "None" \/ damage_detections = <<>>

\* PartIdentificationAgent.process. fault is what the parts model does when
\* called: "none", "inference" (self.model(...) raises, caught at lines 95-99) or
\* "decode" (reading the returned boxes raises, outside any try).
PartProcess(model, damage_detections, fault, boxes, pcts) ==
    IF PartEarlyReturn(model, damage_detections)
    THEN [raised |-> FALSE, value |-> [damaged_parts |-> <<>>, processing_time_ms |-> 0]]
    ELSE IF fault = "inference"
    THEN [raised |-> FALSE, value |-> [damaged_parts |-> <<>>, processing_time_ms |-> 0]]
    ELSE IF fault = "decode"
    THEN [raised |-> TRUE, value |-> [damaged_parts |-> <<>>, processing_time_ms |-> 0]]
    ELSE [raised |-> FALSE,
          value |-> [damaged_parts |-> AssociateParts(damage_detections, DecodeParts(boxes),
                                                      IOU_THRESHOLD, pcts),
                     processing_time_ms |-> 0]]

(***************************************************************************)
(* utils/config.py                                                         *)
(***************************************************************************)
\* The literal SEVERITY_RULES is bound to when utils.config is loaded.
SeverityRulesAtLoad ==
    [minor    |-> [cost_range |-> <<100, 500>>,     repair_days |-> 1],
     moderate |-> [cost_range |-> <<500, 3000>>,    repair_days |-> 3],
     major    |-> [cost_range |-> <<3000, 10000>>,  repair_days |-> 7],
     severe   |-> [cost_range |-> <<10000, 30000>>, repair_days |-> 14]]

\* The literal DAMAGE_TO_SEVERITY_MAPPING is bound to when utils.config is loaded.
DamageToSeverityAtLoad ==
    [scratch      |-> "minor",
     paint_damage |-> "minor",
     dent         |-> "moderate",
     bent         |-> "moderate",
     crack        |-> "major",
     shatter      |-> "major",
     missing      |-> "severe"]

(***************************************************************************)
(* agents/severity_assessment_agent.py                                     *)
(***************************************************************************)
severity_levels == [minor |-> 1, moderate |-> 2, major |-> 3, severe |-> 4]

repair_category_map ==
    [minor    |-> "minor_cosmetic_repair",
     moderate |-> "body_shop_required",
     major    |-> "significant_body_work",
     severe   |-> "potential_total_loss"]

\* The update, were the comparison turned round: the lowest level is kept.
KeepLowerLevel(level, max_severity_level) ==
    IF max_severity_level = 0 \/ level < max_severity_level
    THEN level ELSE max_severity_level

\* `if level > max_severity_level: max_severity_level = level`
RaiseLevel(level, max_severity_level) ==
    IF level > max_severity_level THEN level ELSE max_severity_level

\* The level one part contributes: mapping.get(damage_type, "moderate"), then
\* severity_levels.get(severity_str, 2).
PartLevel(part, mapping) ==
    LET damage_type == Get(part, "damage_type", "dent")
        severity_str == Get(mapping, damage_type, "moderate")
    IN  Get(severity_levels, severity_str, 2)

\* The loop over damaged_parts_data, from index i on.
RECURSIVE MaxSeverityLevel(_, _, _, _)
MaxSeverityLevel(damaged_parts_data, mapping, i, max_severity_level) ==
    IF i > Len(damaged_parts_data) THEN max_severity_level
    ELSE MaxSeverityLevel(damaged_parts_data, mapping, i + 1,
                          RaiseLevel(PartLevel(damaged_parts_data[i], mapping),
                                     max_severity_level))

\* next((k for k, v in severity_levels.items() if v == max_severity_level), "moderate")
LevelName(max_severity_level) ==
    IF \E k \in DOMAIN severity_levels : severity_levels[k] = max_severity_level
    THEN CHOOSE k \in DOMAIN severity_levels : severity_levels[k] = max_severity_level
    ELSE "moderate"

\* A cost range as the result holds it: either a list of its own (alias "none")
\* or the very list stored in SEVERITY_RULES[alias]["cost_range"].
OwnList(value) == [alias |-> "none", value |-> value]
\* The result's list, were it a copy of the range the rules were loaded with.
RulesListAtLoad(level) == [alias |-> "none", value |-> SeverityRulesAtLoad[level].cost_range]

RulesList(level) == [alias |-> level, value |-> <<>>]
Deref(ref, rules) ==
    IF ref.alias = "none" THEN ref.value ELSE rules[ref.alias].cost_range

\* int(x * f) for a factor f given in hundredths.
IntTimes(x, f) == (x * f) \div 100

\* round(h / 100, 1) in tenths, for h in hundredths.
Round1(h) == (h + 5) \div 10

\* The early return for an empty damaged_parts_data.
NoDamageResult ==
    [overall_severity |-> "no_damage_detected", severity_score |-> 0,
     repair_category |-> "none", estimated_cost_range |-> OwnList(<<0, 0>>),
     repair_time_days |-> 0, processing_time_ms |-> 0]

\* The test, were the early return missing.
SeverityEarlyReturnNever(damaged_parts_data) == FALSE

\* `if not damaged_parts_data`
SeverityEarlyReturn(damaged_parts_data) == damaged_parts_data = <<>>

\* MockSeverityAssessmentAgent.process. jitter = <<jl, jh>> are the two
\* random.uniform factors of the cost jitter in hundredths, r is the
\* random.uniform(0, 1) of the severity score in hundredths. The call returns
\* its result and leaves the module-level rules as `rules`.
SeverityProcess(damaged_parts_data, rules, mapping, jitter, r) ==
    IF SeverityEarlyReturn(damaged_parts_data)
    THEN [result |-> NoDamageResult, rules |-> rules]
    ELSE LET max_severity_level == MaxSeverityLevel(damaged_parts_data, mapping, 1, 0)
             overall_severity == LevelName(max_severity_level)
             key == IF overall_severity \in DOMAIN rules THEN overall_severity
                    ELSE "moderate"
             cost_range == rules[key].cost_range
             repair_days == rules[key].repair_days
             jittered == <<IntTimes(cost_range[1], jitter[1]),
                           IntTimes(cost_range[2], jitter[2])>>
         IN  [result |->
                 [overall_severity |-> overall_severity,
                  severity_score |-> Round1(max_severity_level * 250 - r),
                  repair_category |-> Get(repair_category_map, overall_severity, "None"),
                  estimated_cost_range |-> RulesList(key),
                  repair_time_days |-> repair_days,
                  processing_time_ms |-> 0],
              rules |-> [rules EXCEPT ![key].cost_range = jittered]]

(***************************************************************************)
(* agents/image_quality_agent.py                                           *)
(***************************************************************************)
\* str.lower() on one token of a path.
Lower(w) ==
    CASE w = "Blurry" -> "blurry"
      [] w = "DARK" -> "dark"
      [] w = "Manipulated" -> "manipulated"
      [] OTHER -> w

\* `word in image_path.lower()`
InLowered(word, image_path) ==
    \E i \in 1..Len(image_path) : Lower(image_path[i]) = word

\* round(t / 1000, 2) in hundredths, for t in thousandths.
Round2(t) == (t + 5) \div 10

\* processable, were it cleared by the "dark" branch as well.
ProcessableInDaylight(image_path) ==
    ~InLowered("blurry", image_path) /\ ~InLowered("dark", image_path)

\* processable: True unless the "blurry" branch clears it.
Processable(image_path) == ~InLowered("blurry", image_path)

\* MockImageQualityAgent.process. q holds the three random.uniform draws of the
\* quality score in thousandths.
QualityProcess(image_path, q) ==
    LET blurry == InLowered("blurry", image_path)
        dark == InLowered("dark", image_path)
        score == IF dark THEN q.dark ELSE IF blurry THEN q.blur ELSE q.base
    IN  [quality_score |-> Round2(score),
         issues |-> (IF blurry THEN <<"blur">> ELSE <<>>)
                    \o (IF dark THEN <<"low_light">> ELSE <<>>),
         enhanced_image |-> "zeros",
         processable |-> Processable(image_path),
         manipulation_detected |-> InLowered("manipulated", image_path),
         processing_time_ms |-> 0]

(***************************************************************************)
(* agents/damage_detection_agent.py                                        *)
(***************************************************************************)
DAMAGE_CLASS_MAP ==
    [i \in 0..10 |->
        CASE i = 0 -> "car-part-crack"        [] i = 1 -> "detachment"
          [] i = 2 -> "glass-crack"           [] i = 3 -> "lamp-crack"
          [] i = 4 -> "minor-deformation"     [] i = 5 -> "moderate-deformation"
          [] i = 6 -> "paint-chips"           [] i = 7 -> "scratches"
          [] i = 8 -> "severe-deformation"    [] i = 9 -> "side-mirror-crack"
          [] i = 10 -> "flat-tire"]

\* The detection record built for one box the model returned.
Detection(box) ==
    [bbox |-> box.xyxy,
     confidence |-> Round2(box.conf),
     damage_type |-> Get(DAMAGE_CLASS_MAP, box.cls, "unknown_damage")]

\* The call, were the try/except around self.model(...) missing.
DetectionProcessUncaught(model, fault, boxes, area) ==
    IF model = "None"
    THEN [raised |-> FALSE,
          value |-> [detections |-> <<>>, total_damage_area |-> 0,
                     processing_time_ms |-> 0]]
    ELSE IF fault \in {"inference", "decode"}
    THEN [raised |-> TRUE,
          value |-> [detections |-> <<>>, total_damage_area |-> 0,
                     processing_time_ms |-> 0]]
    ELSE [raised |-> FALSE,
          value |-> [detections |-> [i \in 1..Len(boxes) |-> Detection(boxes[i])],
                     total_damage_area |-> IF boxes # <<>> THEN Round2(area) ELSE 0,
                     processing_time_ms |-> 0]]

\* DamageDetectionAgent.process. fault is what the damage model does when
\* called: "none", "inference" (self.model(...) raises, caught at lines 84-88) or
\* "decode" (reading the returned boxes raises, outside any try). area is the
\* random.uniform(5.0, 25.0) of the mocked damage area, in thousandths.
DetectionProcess(model, fault, boxes, area) ==
    IF model = "None"
    THEN [raised |-> FALSE,
          value |-> [detections |-> <<>>, total_damage_area |-> 0,
                     processing_time_ms |-> 0]]
    ELSE IF fault = "inference"
    THEN [raised |-> FALSE,
          value |-> [detections |-> <<>>, total_damage_area |-> 0,
                     processing_time_ms |-> 0]]
    ELSE IF fault = "decode"
    THEN [raised |-> TRUE,
          value |-> [detections |-> <<>>, total_damage_area |-> 0,
                     processing_time_ms |-> 0]]
    ELSE [raised |-> FALSE,
          value |-> [detections |-> [i \in 1..Len(boxes) |-> Detection(boxes[i])],
                     total_damage_area |-> IF boxes # <<>> THEN Round2(area) ELSE 0,
                     processing_time_ms |-> 0]]

(***************************************************************************)
(* orchestrator/graph_state.py and ui/app.py: the state of one claim.      *)
(* An Optional field is <<>> for None and <<v>> for a value v.             *)
(***************************************************************************)
GraphState(claim_id, image_path) ==
    [claim_id |-> claim_id,
     image_path |-> image_path,
     processing_log |-> <<>>,
     error_message |-> <<>>,
     quality_check_result |-> <<>>,
     damage_detection_result |-> <<>>,
     part_identification_result |-> <<>>,
     severity_assessment_result |-> <<>>,
     final_report |-> <<>>]

(***************************************************************************)
(* orchestrator/damage_assessment_graph.py                                 *)
(***************************************************************************)
\* The edge function, were it to ignore the quality result.
should_continue_always(s) == "continue_processing"

\* The conditional edge function.
should_continue(s) ==
    IF s.quality_check_result[1].processable
    THEN "continue_processing"
    ELSE "terminate_processing"

\* The mapping given to add_conditional_edges for "quality_check".
ConditionalTarget(decision) ==
    IF decision = "continue_processing" THEN "damage_detection" ELSE "compile_report"

\* The edges, were damage_detection wired to severity_assessment.
EdgeSkippingParts(node) ==
    CASE node = "damage_detection" -> "severity_assessment"
      [] node = "part_identification" -> "severity_assessment"
      [] node = "severity_assessment" -> "compile_report"
      [] node = "compile_report" -> "END"

\* The edges given to add_edge.
Edge(node) ==
    CASE node = "damage_detection" -> "part_identification"
      [] node = "part_identification" -> "severity_assessment"
      [] node = "severity_assessment" -> "compile_report"
      [] node = "compile_report" -> "END"

\* image_path.split('/')[-1]
RECURSIVE LastComponent(_)
LastComponent(image_path) ==
    IF \E i \in 1..Len(image_path) : image_path[i] = "/"
    THEN LastComponent(Tail(image_path))
    ELSE image_path

\* next((d['confidence'] for d in detections if d['bbox'] == bbox), 0.9)
ConfidenceFor(detections, bbox) ==
    IF \E i \in 1..Len(detections) : detections[i].bbox = bbox
    THEN LET first == CHOOSE i \in 1..Len(detections) :
                          /\ detections[i].bbox = bbox
                          /\ \A j \in 1..(i - 1) : detections[j].bbox # bbox
         IN  detections[first].confidence
    ELSE 90

\* The annotations, were a damage type the mapping lacks given "minor".
AnnotationsDefaultMinor(damaged_parts, detections, mapping) ==
    [i \in 1..Len(damaged_parts) |->
        [damage_type |-> damaged_parts[i].damage_type,
         part |-> damaged_parts[i].part_name,
         bbox |-> damaged_parts[i].bbox,
         confidence |-> ConfidenceFor(detections, damaged_parts[i].bbox),
         severity |-> Get(mapping, damaged_parts[i].damage_type, "minor")]]

\* The annotations list built from the damaged parts.
Annotations(damaged_parts, detections, mapping) ==
    [i \in 1..Len(damaged_parts) |->
        [damage_type |-> damaged_parts[i].damage_type,
         part |-> damaged_parts[i].part_name,
         bbox |-> damaged_parts[i].bbox,
         confidence |-> ConfidenceFor(detections, damaged_parts[i].bbox),
         severity |-> Get(mapping, damaged_parts[i].damage_type, "moderate")]]

RECURSIVE SumConfidence(_, _)
SumConfidence(detections, i) ==
    IF i > Len(detections) THEN 0
    ELSE detections[i].confidence + SumConfidence(detections, i + 1)

\* The mean, were it cut off after two decimals instead of rounded.
TruncatedMean(total, n) == total \div n

\* round(total / n, 2) in hundredths for a total in hundredths: the nearest
\* integer to total / n, the even one of two nearest.
RoundedMean(total, n) ==
    LET q == total \div n
        twice == 2 * (total - q * n)
    IN  IF twice > n THEN q + 1
        ELSE IF twice < n THEN q
        ELSE IF q % 2 = 0 THEN q ELSE q + 1

\* damage_summary.confidence_score
ConfidenceScore(detections) ==
    IF detections # <<>>
    THEN RoundedMean(SumConfidence(detections, 1), Len(detections))
    ELSE 0

\* The report of the rejection branch of compile_final_report.
RejectionReport(s) ==
    [claim_id |-> s.claim_id,
     assessment_result |->
        [quality_check |-> [passed |-> FALSE,
                            issues |-> s.quality_check_result[1].issues]]]

\* The report of the success branch of compile_final_report.
SuccessReport(s, mapping) ==
    LET quality_res == s.quality_check_result[1]
        damage_res == s.damage_detection_result[1]
        part_res == s.part_identification_result[1]
        severity_res == s.severity_assessment_result[1]
    IN  [claim_id |-> s.claim_id,
         assessment_result |->
            [quality_check |-> [passed |-> TRUE,
                                average_quality |-> quality_res.quality_score],
             damage_summary |->
                [total_damages_found |-> Len(damage_res.detections),
                 affected_parts |-> [i \in 1..Len(part_res.damaged_parts) |->
                                        part_res.damaged_parts[i].part_name],
                 overall_severity |-> severity_res.overall_severity,
                 confidence_score |-> ConfidenceScore(damage_res.detections)],
             annotations |->
                <<[image_id |-> LastComponent(s.image_path),
                   detections |-> Annotations(part_res.damaged_parts,
                                              damage_res.detections, mapping)]>>,
             repair_estimate |->
                [cost_range |-> severity_res.estimated_cost_range,
                 repair_days |-> severity_res.repair_time_days,
                 category |-> severity_res.repair_category],
             fraud_indicators |->
                [image_manipulation_detected |->
                    Get(quality_res, "manipulation_detected", FALSE),
                 consistency_score |-> 95]],
         agent_metrics |->
            [image_quality |-> quality_res.processing_time_ms,
             damage_detection |-> damage_res.processing_time_ms,
             part_identification |-> part_res.processing_time_ms,
             severity_assessment |-> severity_res.processing_time_ms]]

\* A report as its holder reads it: the cost range is the list the report
\* refers to, with the values that list holds at the time of reading.
ReadReport(report, rules) ==
    IF "repair_estimate" \in DOMAIN report.assessment_result
    THEN [report EXCEPT !.assessment_result.repair_estimate.cost_range = Deref(@, rules)]
    ELSE report

\* compile_final_report as a function of the state it is given.
CompiledState(s, mapping) ==
    LET logged == [s EXCEPT !.processing_log =
                                Append(@, "Step 5: Compiling Final Report...")]
    IN  IF ~logged.quality_check_result[1].processable
        THEN [logged EXCEPT
                 !.error_message = <<"Image quality is too low to process.">>,
                 !.final_report = <<RejectionReport(logged)>>,
                 !.processing_log = Append(@, "Process Halted: Image Rejected.")]
        ELSE [logged EXCEPT
                 !.final_report = <<SuccessReport(logged, mapping)>>,
                 !.processing_log = Append(@, "Process Complete.")]

(***************************************************************************)
(* Inputs: what the callers and the external models may supply.            *)
(***************************************************************************)
\* Image paths handed to the graph.
ImagePaths ==
    {<<"uploads", "/", "car">>,
     <<"uploads", "/", "Blurry", "car">>,
     <<"uploads", "/", "dark", "manipulated">>,
     <<"blurry", "/", "DARK">>,
     <<"Manipulated", "/", "Blurry">>}

\* The random.uniform draws of the quality score, in thousandths.
QualityDraws == {[base |-> 912, blur |-> 487, dark |-> 613]}

\* What calling a YOLO model may do.
Faults == {"none", "inference", "decode"}

\* Boxes the damage model may return: two with the same coordinates and
\* different confidences, and a small one of a class DAMAGE_CLASS_MAP lacks.
ScratchesBox == [xyxy |-> <<0, 0, 10, 10>>, conf |-> 926, cls |-> 7]
GlassCrackBox == [xyxy |-> <<0, 0, 10, 10>>, conf |-> 874, cls |-> 2]
UnknownBox == [xyxy |-> <<0, 0, 1, 1>>, conf |-> 893, cls |-> 99]

\* results[0].boxes of the damage model: the box lists it may return.
YoloDamageResults ==
    {<<>>,
     <<ScratchesBox>>,
     <<ScratchesBox, GlassCrackBox>>,
     <<GlassCrackBox, ScratchesBox>>,
     <<UnknownBox, ScratchesBox>>,
     <<ScratchesBox, GlassCrackBox, UnknownBox>>}

\* The random.uniform draw of the mocked damage area, in thousandths.
DamageAreas == {15004}

\* results[0].boxes of the parts model in a pipeline run: the box lists it may
\* return.
BumperBox == [xyxy |-> <<0, 0, 10, 10>>, cls |-> 8]
HoodBox == [xyxy |-> <<5, 0, 15, 10>>, cls |-> 16]

YoloPartResults == {<<>>, <<HoodBox>>, <<BumperBox, HoodBox>>}

\* random.randint(15, 60) in a pipeline run.
PipelinePercentages == {37}

\* The cost jitter <<low factor, high factor>> and the severity score draw, in
\* hundredths.
JitterDraws == {<<90, 100>>, <<110, 120>>}
ScoreDraws == {37}

\* Damage detections handed to a direct call of PartIdentificationAgent.process.
DamageInputs ==
    {[bbox |-> <<0, 0, 10, 10>>, confidence |-> 92, damage_type |-> "dent"],
     [bbox |-> <<0, 0, 10, 10>>, confidence |-> 88, damage_type |-> "scratch"],
     [bbox |-> <<0, 0, 1, 1>>,   confidence |-> 88, damage_type |-> "scratch"]}

\* Boxes the parts model may return in a direct call. Against <<0, 0, 10, 10>>
\* their IoU is 1, 1/3, 1/3 and 1/199; against <<0, 0, 1, 1>> it is 1/100, 0,
\* 0 and 0.
PartBoxes ==
    {[xyxy |-> <<0, 0, 10, 10>>,  cls |-> 8],
     [xyxy |-> <<5, 0, 15, 10>>,  cls |-> 16],
     [xyxy |-> <<0, 5, 10, 15>>,  cls |-> 21],
     [xyxy |-> <<9, 9, 19, 19>>,  cls |-> 99]}

Percentages == {15, 60}

\* Damaged parts handed to a direct call of MockSeverityAssessmentAgent.process.
PartMatches ==
    {[part_name |-> "front_bumper", damage_type |-> "scratch"],
     [part_name |-> "left_headlight", damage_type |-> "crack"],
     [part_name |-> "hood", damage_type |-> "missing"],
     [part_name |-> "front_glass", damage_type |-> "glass-crack"]}

(***************************************************************************)
(* The state after the modules are loaded: agents instantiated (a model    *)
(* that fails to load leaves self.model = None), graph built, no claim.    *)
(***************************************************************************)
NoPartCall ==
    [called |-> FALSE, model |-> "None", damage_detections |-> <<>>, boxes |-> <<>>,
     raised |-> FALSE, damaged_parts |-> <<>>]

NoIouCall == [called |-> FALSE, boxA |-> <<0, 0, 0, 0>>, boxB |-> <<0, 0, 0, 0>>,
              iou |-> <<0, 1>>]

NoSeverityCall ==
    [called |-> FALSE, damaged_parts_data |-> <<>>, result |-> NoDamageResult]

Init ==
    /\ pc = "idle"
    /\ state = GraphState(0, <<>>)
    /\ invoked = <<>>
    /\ runs = 0
    /\ detection_agent \in {"loaded", "None"}
    /\ part_agent \in {"loaded", "None"}
    /\ SEVERITY_RULES = SeverityRulesAtLoad
    /\ DAMAGE_TO_SEVERITY_MAPPING = DamageToSeverityAtLoad
    /\ part_call = NoPartCall
    /\ severity_call = NoSeverityCall
    /\ severity_calls = 0
    /\ previous_report = <<>>
    /\ iou_call = NoIouCall
    /\ detection_outcome = "not_called"
    /\ stream_closed = FALSE

(***************************************************************************)
(* The pipeline: ui/app.py starts a claim, the graph runs its nodes.       *)
(***************************************************************************)
\* `if not qc_result['processable']: ... break` in the loop over the stream.
StreamBreaks(consumer, qc_result) == consumer = "stream" /\ ~qc_result.processable

\* The append, were the line put at the head of the log.
Prepend1(s, line) == [s EXCEPT !.processing_log = <<line>> \o @]

\* state['processing_log'].append(line)
Append1(s, line) == [s EXCEPT !.processing_log = Append(@, line)]

\* Who drives the graph: a caller that runs it to its end (invoke), or the
\* loop of process_damage_claim over damage_assessment_graph.stream, which
\* breaks after a quality_check update that is not processable.
Consumers == {"invoke", "stream"}

\* process_damage_claim builds the initial state and starts the graph at its
\* entry point, once the run before it has ended or was left. The report of
\* the claim before it stays with whoever was given it.
process_damage_claim ==
    /\ pc \in {"idle", "END", "raised"} \/ stream_closed
    /\ runs < MaxRuns
    /\ \E image_path \in ImagePaths :
          state' = GraphState(runs + 1, image_path)
    /\ pc' = "quality_check"
    /\ invoked' = <<>>
    /\ runs' = runs + 1
    /\ previous_report' = state.final_report
    /\ detection_outcome' = "not_called"
    /\ stream_closed' = FALSE
    /\ UNCHANGED <<iou_call, detection_agent, part_agent, SEVERITY_RULES,
                   DAMAGE_TO_SEVERITY_MAPPING, part_call, severity_call, severity_calls>>

\* The node, and what the consumer does with the update the node yields: the
\* streaming consumer breaks out of its loop when processable is false, and the
\* suspended graph is never resumed.
run_quality_check ==
    /\ pc = "quality_check"
    /\ \E q \in QualityDraws, consumer \in Consumers :
          LET logged == Append1(state, "Step 1: Assessing Image Quality...")
              result == QualityProcess(logged.image_path, q)
              after == [logged EXCEPT !.quality_check_result = <<result>>]
          IN  /\ state' = after
              /\ pc' = ConditionalTarget(should_continue(after))
              /\ stream_closed' = StreamBreaks(consumer, result)
    /\ invoked' = Append(invoked, "quality_agent")
    /\ UNCHANGED <<previous_report, iou_call, detection_outcome, runs, detection_agent,
                   part_agent, SEVERITY_RULES, DAMAGE_TO_SEVERITY_MAPPING, part_call,
                   severity_call, severity_calls>>

run_damage_detection ==
    /\ pc = "damage_detection"
    /\ ~stream_closed
    /\ \E fault \in Faults, boxes \in YoloDamageResults, area \in DamageAreas :
          /\ (fault # "none" \/ detection_agent = "None") => boxes = <<>>
          /\ detection_agent = "None" => fault = "none"
          /\ LET logged == Append1(state, "Step 2: Detecting Damage...")
                 out == DetectionProcess(detection_agent, fault, boxes, area)
             IN  IF out.raised
                 THEN /\ state' = logged
                      /\ pc' = "raised"
                 ELSE /\ state' = [logged EXCEPT !.damage_detection_result = <<out.value>>]
                      /\ pc' = Edge("damage_detection")
          /\ detection_outcome' = IF detection_agent = "None" THEN "no_model" ELSE fault
    /\ invoked' = Append(invoked, "detection_agent")
    /\ UNCHANGED <<previous_report, iou_call, stream_closed, runs, detection_agent,
                   part_agent, SEVERITY_RULES, DAMAGE_TO_SEVERITY_MAPPING, part_call,
                   severity_call, severity_calls>>

run_part_identification ==
    /\ pc = "part_identification"
    /\ ~stream_closed
    /\ LET logged == Append1(state, "Step 3: Identifying Damaged Parts...")
           damage_detections == logged.damage_detection_result[1].detections
       IN  \E fault \in Faults, boxes \in YoloPartResults,
             pcts \in [1..Len(damage_detections) -> PipelinePercentages] :
              /\ (fault # "none" \/ PartEarlyReturn(part_agent, damage_detections))
                     => boxes = <<>>
              /\ LET out == PartProcess(part_agent, damage_detections, fault, boxes, pcts)
                 IN  IF out.raised
                     THEN /\ state' = logged
                          /\ pc' = "raised"
                     ELSE /\ state' = [logged EXCEPT
                                          !.part_identification_result = <<out.value>>]
                          /\ pc' = Edge("part_identification")
    /\ invoked' = Append(invoked, "part_agent")
    /\ UNCHANGED <<previous_report, iou_call, detection_outcome, stream_closed, runs,
                   detection_agent, part_agent, SEVERITY_RULES, DAMAGE_TO_SEVERITY_MAPPING,
                   part_call, severity_call, severity_calls>>

run_severity_assessment ==
    /\ pc = "severity_assessment"
    /\ ~stream_closed
    /\ \E jitter \in JitterDraws, r \in ScoreDraws :
          LET logged == Append1(state, "Step 4: Assessing Severity...")
              damaged_parts == logged.part_identification_result[1].damaged_parts
              out == SeverityProcess(damaged_parts, SEVERITY_RULES,
                                     DAMAGE_TO_SEVERITY_MAPPING, jitter, r)
          IN  /\ state' = [logged EXCEPT !.severity_assessment_result = <<out.result>>]
              /\ SEVERITY_RULES' = out.rules
    /\ pc' = Edge("severity_assessment")
    /\ invoked' = Append(invoked, "severity_agent")
    /\ UNCHANGED <<previous_report, iou_call, detection_outcome, stream_closed, runs,
                   detection_agent, part_agent, DAMAGE_TO_SEVERITY_MAPPING, part_call,
                   severity_call, severity_calls>>

compile_final_report ==
    /\ pc = "compile_report"
    /\ ~stream_closed
    /\ state' = CompiledState(state, DAMAGE_TO_SEVERITY_MAPPING)
    /\ pc' = Edge("compile_report")
    /\ UNCHANGED <<previous_report, iou_call, detection_outcome, stream_closed, invoked,
                   runs, detection_agent, part_agent, SEVERITY_RULES,
                   DAMAGE_TO_SEVERITY_MAPPING, part_call, severity_call, severity_calls>>

Next ==
    \/ process_damage_claim
    \/ run_quality_check
    \/ run_damage_detection
    \/ run_part_identification
    \/ run_severity_assessment
    \/ compile_final_report

Spec == Init /\ [][Next]_vars

\* The graph runs the node that is due for as long as its consumer keeps asking
\* for updates; nothing makes a new claim arrive.
FairSpec ==
    /\ Spec
    /\ WF_vars(run_quality_check)
    /\ WF_vars(run_damage_detection)
    /\ WF_vars(run_part_identification)
    /\ WF_vars(run_severity_assessment)
    /\ WF_vars(compile_final_report)

(***************************************************************************)
(* The direct call of PartIdentificationAgent.process that its __main__    *)
(* block makes, with any damage list.                                      *)
(***************************************************************************)
PartProcessCall ==
    /\ ~part_call.called
    /\ \E damage_detections \in SeqsUpTo(DamageInputs, MaxDamages),
         fault \in {"none", "inference"}, boxes \in SeqsUpTo(PartBoxes, MaxParts) :
          \E pcts \in [1..Len(damage_detections) -> Percentages] :
             /\ fault # "none" => boxes = <<>>
             /\ LET out == PartProcess(part_agent, damage_detections, fault, boxes, pcts)
                IN  part_call' = [called |-> TRUE,
                                  model |-> part_agent,
                                  damage_detections |-> damage_detections,
                                  boxes |-> IF fault = "none" /\ part_agent = "loaded"
                                                 /\ damage_detections # <<>>
                                            THEN boxes ELSE <<>>,
                                  raised |-> out.raised,
                                  damaged_parts |-> out.value.damaged_parts]
    /\ UNCHANGED <<previous_report, iou_call, detection_outcome, stream_closed, pc, state,
                   invoked, runs, detection_agent, part_agent, SEVERITY_RULES,
                   DAMAGE_TO_SEVERITY_MAPPING, severity_call, severity_calls>>

NextParts == PartProcessCall

SpecParts == Init /\ [][NextParts]_vars

(***************************************************************************)
(* Direct calls of MockSeverityAssessmentAgent.process, as its __main__    *)
(* block makes them, one after the other in one process.                   *)
(***************************************************************************)
SeverityProcessCall ==
    /\ severity_calls < MaxCalls
    /\ \E damaged_parts_data \in SeqsUpTo(PartMatches, MaxDamages),
         jitter \in JitterDraws, r \in ScoreDraws :
          LET out == SeverityProcess(damaged_parts_data, SEVERITY_RULES,
                                     DAMAGE_TO_SEVERITY_MAPPING, jitter, r)
          IN  /\ severity_call' = [called |-> TRUE,
                                   damaged_parts_data |-> damaged_parts_data,
                                   result |-> out.result]
              /\ SEVERITY_RULES' = out.rules
    /\ severity_calls' = severity_calls + 1
    /\ UNCHANGED <<previous_report, iou_call, detection_outcome, stream_closed, pc, state,
                   invoked, runs, detection_agent, part_agent, DAMAGE_TO_SEVERITY_MAPPING,
                   part_call>>

NextSeverity == SeverityProcessCall

SpecSeverity == Init /\ [][NextSeverity]_vars

(***************************************************************************)
(* A direct call of calculate_iou on any two boxes of integer coordinates, *)
(* degenerate and inverted ones included.                                  *)
(***************************************************************************)
Coords == 0..MaxCoord

Boxes == {<<x1, y1, x2, y2>> : x1 \in Coords, y1 \in Coords, x2 \in Coords, y2 \in Coords}

calculate_iou_call ==
    /\ ~iou_call.called
    /\ \E boxA \in Boxes, boxB \in Boxes :
          iou_call' = [called |-> TRUE, boxA |-> boxA, boxB |-> boxB,
                       iou |-> calculate_iou(boxA, boxB)]
    /\ UNCHANGED <<pc, state, invoked, runs, detection_agent, part_agent, SEVERITY_RULES,
                   DAMAGE_TO_SEVERITY_MAPPING, part_call, severity_call, severity_calls,
                   previous_report, detection_outcome, stream_closed>>

NextIou == calculate_iou_call

SpecIou == Init /\ [][NextIou]_vars

(***************************************************************************)
(* Properties.                                                             *)
(***************************************************************************)
IsPrefix(s, t) == Len(s) <= Len(t) /\ \A i \in 1..Len(s) : s[i] = t[i]

StageOrder == <<"quality_agent", "detection_agent", "part_agent", "severity_agent">>

\* The quality result of the current claim says processable = false.
Rejected ==
    /\ state.quality_check_result # <<>>
    /\ ~state.quality_check_result[1].processable

\* The quality result of the current claim says processable = true.
Accepted ==
    /\ state.quality_check_result # <<>>
    /\ state.quality_check_result[1].processable

\* C1: once the quality result says processable = false, the run is at
\* compile_report or past it, only the Quality agent was invoked, the
\* Detection, PartMapping and Severity slots are unset, and the final
\* report holds claim_id and assessment_result.quality_check (passed = false,
\* the quality result's issues) and no other key.
C1_RejectionPath ==
    Rejected =>
        /\ pc \in {"compile_report", "END"}
        /\ invoked = <<"quality_agent">>
        /\ state.damage_detection_result = <<>>
        /\ state.part_identification_result = <<>>
        /\ state.severity_assessment_result = <<>>
        /\ pc = "compile_report" => state.final_report = <<>>
        /\ pc = "END" =>
              /\ Len(state.final_report) = 1
              /\ DOMAIN state.final_report[1] = {"claim_id", "assessment_result"}
              /\ state.final_report[1].claim_id = state.claim_id
              /\ DOMAIN state.final_report[1].assessment_result = {"quality_check"}
              /\ state.final_report[1].assessment_result.quality_check
                    = [passed |-> FALSE,
                       issues |-> state.quality_check_result[1].issues]

C1_Witness ==
    /\ pc = "END"
    /\ Rejected
    /\ state.final_report # <<>>
    /\ state.quality_check_result[1].issues = <<"blur", "low_light">>

\* C2: no exception leaves the graph, and a run that has ended has its final
\* report.
C2_PipelineTotal ==
    /\ pc # "raised"
    /\ pc \in {"END", "raised"} => state.final_report # <<>>

\* The agents run so far, by the node about to run.
C3_OrderSoFar ==
    /\ IsPrefix(invoked, StageOrder)
    /\ pc = "quality_check" => invoked = <<>>
    /\ pc = "damage_detection" => Accepted /\ invoked = SubSeq(StageOrder, 1, 1)
    /\ pc = "part_identification" => Accepted /\ invoked = SubSeq(StageOrder, 1, 2)
    /\ pc = "severity_assessment" => Accepted /\ invoked = SubSeq(StageOrder, 1, 3)
    /\ (pc \in {"compile_report", "END"} /\ Accepted) => invoked = StageOrder
    /\ (pc \in {"compile_report", "END"} /\ ~Accepted) => invoked = SubSeq(StageOrder, 1, 1)
    /\ pc = "END" =>
          Cardinality({i \in 1..Len(state.processing_log) :
                          state.processing_log[i] = "Step 5: Compiling Final Report..."}) = 1
    /\ pc \in {"quality_check", "damage_detection", "part_identification",
               "severity_assessment", "compile_report"} => state.final_report = <<>>

\* The node a step of a run hands over to. A run left by its consumer before
\* compile_report makes no further step.
C3_Handover ==
    state'.claim_id = state.claim_id =>
        /\ pc = "quality_check" =>
              pc' = IF state'.quality_check_result[1].processable
                    THEN "damage_detection" ELSE "compile_report"
        /\ pc = "damage_detection" => pc' \in {"part_identification", "raised"}
        /\ pc = "part_identification" => pc' \in {"severity_assessment", "raised"}
        /\ pc = "severity_assessment" => pc' = "compile_report"
        /\ pc = "compile_report" => pc' = "END"

\* C3: the agents are invoked in the order Quality, Detection, PartMapping,
\* Severity, none twice and none before its predecessor; the node about to run
\* fixes which agents have run: Quality alone before damage_detection, then one
\* more agent per node, all four before compile_report on the accept path and
\* Quality alone on the rejection path; the report is compiled once, and not
\* before compile_report has run. The one node with two successors in the graph
\* is quality_check, which hands over to damage_detection exactly when
\* processable is true; every other node hands over to one fixed node, or the
\* run ends there because its agent raised.
C3_FixedOrder == [](C3_OrderSoFar) /\ [][C3_Handover]_vars

C3_Witness ==
    /\ pc = "END"
    /\ Accepted
    /\ invoked = StageOrder
    /\ state.final_report # <<>>

\* The matched damages of a direct call, as the indices of its input.
IncreasingMaps(m, n) ==
    {f \in [1..m -> 1..n] : \A j \in 1..m, k \in 1..m : j < k => f[j] < f[k]}

\* C4: the matches of a call are the image of a strictly increasing map into
\* the input damages (at most one match per damage, in input order), and each
\* match has the bbox and the damage_type of the damage it is mapped to.
C4_MatchesMirrorDamages ==
    part_call.called =>
        \E f \in IncreasingMaps(Len(part_call.damaged_parts),
                                Len(part_call.damage_detections)) :
            \A j \in 1..Len(part_call.damaged_parts) :
                /\ part_call.damaged_parts[j].bbox
                      = part_call.damage_detections[f[j]].bbox
                /\ part_call.damaged_parts[j].damage_type
                      = part_call.damage_detections[f[j]].damage_type

C4_Witness ==
    /\ part_call.called
    /\ Len(part_call.damage_detections) = 2
    /\ Len(part_call.damaged_parts) = 1
    /\ part_call.damaged_parts[1].bbox = part_call.damage_detections[2].bbox
    /\ part_call.damaged_parts[1].bbox # part_call.damage_detections[1].bbox
    /\ \E k \in 1..Len(part_call.boxes) :
          part_call.boxes[k].xyxy # part_call.damaged_parts[1].bbox

\* The IoU of a damage against the k-th box of the parts model.
IouAgainst(damage, boxes, k) == calculate_iou(damage.bbox, boxes[k].xyxy)

\* k is the earliest box of the greatest IoU against the damage.
IsBestBox(damage, boxes, k) ==
    /\ \A j \in 1..Len(boxes) :
          ~FracGt(IouAgainst(damage, boxes, j), IouAgainst(damage, boxes, k))
    /\ \A j \in 1..(k - 1) :
          FracGt(IouAgainst(damage, boxes, k), IouAgainst(damage, boxes, j))

\* The damage has a box whose IoU exceeds the threshold.
HasMatch(damage, boxes) ==
    \E k \in 1..Len(boxes) : FracGt(IouAgainst(damage, boxes, k), IOU_THRESHOLD)

MatchedIndices(damages, boxes) ==
    SelectSeq([i \in 1..Len(damages) |-> i], LAMBDA i : HasMatch(damages[i], boxes))

\* C5: the matches of a call are, in order, those damages whose greatest IoU
\* over the part boxes strictly exceeds IOU_THRESHOLD, each with the part of
\* the earliest box of that greatest IoU; and damage [0,0,100,100] with parts
\* X = [0,0,100,100] and Y = [500,500,600,600] gives one match, for X.
C5_BestPartAboveThreshold ==
    /\ part_call.called =>
          LET damages == part_call.damage_detections
              boxes == part_call.boxes
              matched == MatchedIndices(damages, boxes)
          IN  /\ Len(part_call.damaged_parts) = Len(matched)
              /\ \A j \in 1..Len(matched) :
                    \E k \in 1..Len(boxes) :
                        /\ IsBestBox(damages[matched[j]], boxes, k)
                        /\ part_call.damaged_parts[j].part_name
                              = Get(PART_CLASS_MAP, boxes[k].cls, "unknown_part")
                        /\ part_call.damaged_parts[j].bbox = damages[matched[j]].bbox
    /\ LET example ==
               AssociateParts(
                   <<[bbox |-> <<0, 0, 100, 100>>, confidence |-> 92,
                      damage_type |-> "dent"]>>,
                   <<[bbox |-> <<0, 0, 100, 100>>, class_id |-> 8],
                     [bbox |-> <<500, 500, 600, 600>>, class_id |-> 16]>>,
                   IOU_THRESHOLD, <<15>>)
       IN  Len(example) = 1 /\ example[1].part_name = PART_CLASS_MAP[8]

\* A damage matched to the earlier of two boxes of equal greatest IoU, next to a
\* damage that no box overlaps and that is dropped.
C5_Witness ==
    /\ part_call.called
    /\ Len(part_call.boxes) = 2
    /\ Len(part_call.damage_detections) = 2
    /\ FracEq(IouAgainst(part_call.damage_detections[1], part_call.boxes, 1),
              IouAgainst(part_call.damage_detections[1], part_call.boxes, 2))
    /\ part_call.boxes[1].cls # part_call.boxes[2].cls
    /\ ~HasMatch(part_call.damage_detections[2], part_call.boxes)
    /\ Len(part_call.damaged_parts) = 1
    /\ part_call.damaged_parts[1].part_name = PART_CLASS_MAP[part_call.boxes[1].cls]

\* C6: a call with no damages, or one in which no part box was detected,
\* returns no match and raises nothing.
C6_EmptyInEmptyOut ==
    (part_call.called /\ (part_call.damage_detections = <<>> \/ part_call.boxes = <<>>))
        => (part_call.damaged_parts = <<>> /\ ~part_call.raised)

C6_Witness ==
    /\ part_call.called
    /\ part_call.model = "loaded"
    /\ Len(part_call.damage_detections) = 2
    /\ part_call.boxes = <<>>
    /\ part_call.damaged_parts = <<>>

\* The order minor < moderate < major < severe.
SeverityRank(level) ==
    CASE level = "minor" -> 1
      [] level = "moderate" -> 2
      [] level = "major" -> 3
      [] level = "severe" -> 4

\* The level the mapping gives a damage type, moderate when it has none.
MappedLevel(damage_type) ==
    IF damage_type \in DOMAIN DAMAGE_TO_SEVERITY_MAPPING
    THEN DAMAGE_TO_SEVERITY_MAPPING[damage_type]
    ELSE "moderate"

\* C7: for a non-empty list the overall severity is the level of one of the
\* matches and no match has a higher level, a type the mapping lacks counting
\* as moderate; dent + crack gives major.
C7_OverallIsMaximum ==
    /\ (severity_call.called /\ severity_call.damaged_parts_data # <<>>) =>
          LET parts == severity_call.damaged_parts_data
              overall == severity_call.result.overall_severity
          IN  /\ \E i \in 1..Len(parts) : MappedLevel(parts[i].damage_type) = overall
              /\ \A i \in 1..Len(parts) :
                    SeverityRank(MappedLevel(parts[i].damage_type)) <= SeverityRank(overall)
    /\ SeverityProcess(<<[part_name |-> "front_bumper", damage_type |-> "dent"],
                         [part_name |-> "left_headlight", damage_type |-> "crack"]>>,
                       SeverityRulesAtLoad, DamageToSeverityAtLoad, <<90, 100>>, 37
                      ).result.overall_severity = "major"

\* A minor damage next to one of a type the mapping lacks: moderate.
C7_Witness ==
    /\ severity_call.called
    /\ Len(severity_call.damaged_parts_data) = 2
    /\ severity_call.damaged_parts_data[1].damage_type = "glass-crack"
    /\ severity_call.damaged_parts_data[2].damage_type = "scratch"
    /\ severity_call.result.overall_severity = "moderate"

\* C8: an empty list gives no_damage_detected with cost range [0, 0], 0 repair
\* days, score 0 and category none; and no_damage_detected is given for an
\* empty list only.
C8_NoDamageIffEmpty ==
    severity_call.called =>
        /\ severity_call.damaged_parts_data = <<>> =>
              /\ severity_call.result.overall_severity = "no_damage_detected"
              /\ Deref(severity_call.result.estimated_cost_range, SEVERITY_RULES) = <<0, 0>>
              /\ severity_call.result.repair_time_days = 0
              /\ severity_call.result.severity_score = 0
              /\ severity_call.result.repair_category = "none"
        /\ severity_call.result.overall_severity = "no_damage_detected" =>
              severity_call.damaged_parts_data = <<>>

\* An empty call made after a call that matched damages.
C8_Witness ==
    /\ severity_call.called
    /\ severity_calls = 2
    /\ SEVERITY_RULES # SeverityRulesAtLoad
    /\ severity_call.damaged_parts_data = <<>>
    /\ severity_call.result.overall_severity = "no_damage_detected"

\* C9: whenever the last call had damages of types crack and scratch, its
\* result is major with a cost range whose low bound is in [2700, 3300] and
\* whose high bound is in [10000, 12000].
C9_MajorCostWithinJitter ==
    (/\ severity_call.called
     /\ {severity_call.damaged_parts_data[i].damage_type :
            i \in 1..Len(severity_call.damaged_parts_data)} = {"crack", "scratch"})
        => LET cost == Deref(severity_call.result.estimated_cost_range, SEVERITY_RULES)
           IN  /\ severity_call.result.overall_severity = "major"
               /\ 2700 <= cost[1] /\ cost[1] <= 3300
               /\ 10000 <= cost[2] /\ cost[2] <= 12000

\* C10: the configuration tables hold the values they were loaded with.
C10_ConfigReadOnly ==
    /\ SEVERITY_RULES = SeverityRulesAtLoad
    /\ DAMAGE_TO_SEVERITY_MAPPING = DamageToSeverityAtLoad

\* A step leaves the report of the previous claim as it was.
C11_PreviousReportKept ==
    previous_report # <<>> =>
        ReadReport(previous_report[1], SEVERITY_RULES')
            = ReadReport(previous_report[1], SEVERITY_RULES)

\* C11: once a claim has returned its report, no step taken for the next claim
\* changes any field of that report, its repair_estimate.cost_range included.
C11_ReportImmutable == [][C11_PreviousReportKept]_vars

\* The unit cells a box covers; none when the box is degenerate or inverted.
Cells(box) ==
    {<<i, j>> \in Coords \X Coords :
        box[1] <= i /\ i + 1 <= box[3] /\ box[2] <= j /\ j + 1 <= box[4]}

\* C12: calculate_iou(A, B) equals calculate_iou(B, A); calculate_iou(A, A) is 1
\* for every A with x1 < x2 and y1 < y2; and calculate_iou(A, B) is 0 whenever A
\* and B have no unit cell in common, and only then.
C12_IouSymmetricReflexiveDisjoint ==
    iou_call.called =>
        LET A == iou_call.boxA
            B == iou_call.boxB
        IN  /\ FracEq(iou_call.iou, calculate_iou(B, A))
            /\ (A[1] < A[3] /\ A[2] < A[4]) => FracEq(calculate_iou(A, A), <<1, 1>>)
            /\ (A = B /\ A[1] < A[3] /\ A[2] < A[4]) => FracEq(iou_call.iou, <<1, 1>>)
            /\ Cells(A) \cap Cells(B) = {} => FracEq(iou_call.iou, <<0, 1>>)
            /\ Cells(A) \cap Cells(B) # {} => FracGt(iou_call.iou, <<0, 1>>)

\* Two boxes of different areas that overlap in part, with an IoU of 1/4.
C12_Witness ==
    /\ iou_call.called
    /\ Cardinality(Cells(iou_call.boxA)) > Cardinality(Cells(iou_call.boxB))
    /\ Cells(iou_call.boxB) \subseteq Cells(iou_call.boxA)
    /\ Cells(iou_call.boxB) # {}
    /\ FracEq(iou_call.iou, <<1, 4>>)

\* (x2 - x1) * (y2 - y1): negative for a box inverted in one direction.
SignedArea(box) == (box[3] - box[1]) * (box[4] - box[2])

\* C13: for every pair of boxes, degenerate and inverted ones included, the
\* call divides by a positive union area or not at all, the value is in
\* [0, 1], and it is 0 whenever the union area is not positive.
C13_IouInUnitRange ==
    iou_call.called =>
        LET A == iou_call.boxA
            B == iou_call.boxB
            unionArea == SignedArea(A) + SignedArea(B) - Cardinality(Cells(A) \cap Cells(B))
        IN  /\ iou_call.iou[2] > 0
            /\ 0 <= iou_call.iou[1]
            /\ iou_call.iou[1] <= iou_call.iou[2]
            /\ unionArea <= 0 => FracEq(iou_call.iou, <<0, 1>>)

\* An inverted box of negative signed area against a box of positive area, the
\* two areas summing to 0.
C13_Witness ==
    /\ iou_call.called
    /\ iou_call.boxA[1] > iou_call.boxA[3]
    /\ SignedArea(iou_call.boxA) < 0
    /\ SignedArea(iou_call.boxB) > 0
    /\ SignedArea(iou_call.boxA) + SignedArea(iou_call.boxB) = 0
    /\ FracEq(iou_call.iou, <<0, 1>>)

\* The current claim has ended with a success-path report.
SuccessReported == pc = "END" /\ Accepted /\ state.final_report # <<>>

\* The annotation list of the current claim's report.
ReportedAnnotations == state.final_report[1].assessment_result.annotations[1].detections

\* C14: in a success-path report the annotations are the PartMatches, one each
\* and in their order, and they can be traced back, in order, to distinct
\* detections of the same bbox and damage type whose confidence each
\* annotation carries.
C14_AnnotationConfidence ==
    SuccessReported =>
        LET matches == state.part_identification_result[1].damaged_parts
            detections == state.damage_detection_result[1].detections
        IN  /\ Len(ReportedAnnotations) = Len(matches)
            /\ \A j \in 1..Len(matches) :
                  /\ ReportedAnnotations[j].part = matches[j].part_name
                  /\ ReportedAnnotations[j].bbox = matches[j].bbox
                  /\ ReportedAnnotations[j].damage_type = matches[j].damage_type
            /\ \E f \in IncreasingMaps(Len(matches), Len(detections)) :
                  \A j \in 1..Len(matches) :
                      /\ detections[f[j]].bbox = matches[j].bbox
                      /\ detections[f[j]].damage_type = matches[j].damage_type
                      /\ ReportedAnnotations[j].confidence = detections[f[j]].confidence

\* The damage summary of the current claim's report.
ReportedSummary == state.final_report[1].assessment_result.damage_summary

\* C15: in a success-path report confidence_score is 0 when there is no
\* detection, and otherwise a value of two decimals that lies within half a
\* hundredth of the mean of the confidences of all detections, matched or not.
C15_MeanConfidence ==
    SuccessReported =>
        LET detections == state.damage_detection_result[1].detections
            n == Len(detections)
            total == SumConfidence(detections, 1)
            score == ReportedSummary.confidence_score
        IN  /\ n = 0 => score = 0
            /\ n > 0 => /\ 2 * (score * n - total) <= n
                        /\ 2 * (total - score * n) <= n

\* Three detections, the last one unmatched, whose mean 0.8967 rounds up to 0.90.
C15_Witness ==
    /\ SuccessReported
    /\ Len(state.damage_detection_result[1].detections) = 3
    /\ Len(state.part_identification_result[1].damaged_parts) = 2
    /\ SumConfidence(state.damage_detection_result[1].detections, 1) = 269
    /\ ReportedSummary.confidence_score = 90

\* The step descriptions of the four agents, in the order of StageOrder.
StepLines ==
    <<"Step 1: Assessing Image Quality...", "Step 2: Detecting Damage...",
      "Step 3: Identifying Damaged Parts...", "Step 4: Assessing Severity...">>

\* The log by the node about to run: one step description per agent invoked so
\* far, the one of an agent that raised included, and the two lines of
\* compile_report once it has run.
C16_LogSoFar ==
    /\ pc # "END" => state.processing_log = SubSeq(StepLines, 1, Len(invoked))
    /\ (pc = "END" /\ Accepted) =>
          state.processing_log
              = StepLines \o <<"Step 5: Compiling Final Report...", "Process Complete.">>
    /\ (pc = "END" /\ Rejected) =>
          state.processing_log
              = <<"Step 1: Assessing Image Quality...",
                  "Step 5: Compiling Final Report...",
                  "Process Halted: Image Rejected.">>

\* A step of a run extends the log of that run.
C16_AppendOnly ==
    state'.claim_id = state.claim_id =>
        IsPrefix(state.processing_log, state'.processing_log)

\* C16: within a run every step keeps the previous log as a prefix of the new
\* one; the log holds the step description of each agent invoked so far, in
\* order of invocation, also when that agent raised; and at the end it is
\* Step 1 to Step 5 and "Process Complete." on the accept path and Step 1,
\* Step 5 and "Process Halted: Image Rejected." on the rejection path.
C16_LogAppendOnly == [](C16_LogSoFar) /\ [][C16_AppendOnly]_vars

C16_Witness ==
    /\ pc = "END"
    /\ runs = 2
    /\ Accepted
    /\ Len(state.processing_log) = 6
    /\ state.processing_log[6] = "Process Complete."

\* The damage model of this run was not loaded, or its call raised.
DetectionUnavailable == detection_outcome \in {"no_model", "inference"}

\* C17: when the damage model is not loaded or its call raises, the Detection
\* stage stores an empty detection list and nothing is raised there or later;
\* PartMapping then stores no match, Severity stores no_damage_detected, and
\* the report is the success-path one with total_damages_found 0,
\* confidence_score 0, overall_severity no_damage_detected and cost range
\* [0, 0].
C17_DetectionUnavailable ==
    DetectionUnavailable =>
        /\ pc \in {"part_identification", "severity_assessment", "compile_report", "END"}
        /\ Len(state.damage_detection_result) = 1
        /\ state.damage_detection_result[1].detections = <<>>
        /\ pc \in {"severity_assessment", "compile_report", "END"} =>
              /\ Len(state.part_identification_result) = 1
              /\ state.part_identification_result[1].damaged_parts = <<>>
        /\ pc \in {"compile_report", "END"} =>
              /\ Len(state.severity_assessment_result) = 1
              /\ state.severity_assessment_result[1].overall_severity = "no_damage_detected"
        /\ pc = "END" =>
              /\ Len(state.final_report) = 1
              /\ state.final_report[1].assessment_result.quality_check.passed
              /\ ReportedSummary.total_damages_found = 0
              /\ ReportedSummary.confidence_score = 0
              /\ ReportedSummary.overall_severity = "no_damage_detected"
              /\ ReadReport(state.final_report[1], SEVERITY_RULES)
                    .assessment_result.repair_estimate.cost_range = <<0, 0>>

\* A claim whose damage model call raised, after a claim that had damages.
C17_Witness ==
    /\ pc = "END"
    /\ detection_outcome = "inference"
    /\ detection_agent = "loaded"
    /\ SEVERITY_RULES # SeverityRulesAtLoad
    /\ state.final_report # <<>>
    /\ ReportedSummary.overall_severity = "no_damage_detected"

\* C18: every label of DAMAGE_CLASS_MAP is a key of DAMAGE_TO_SEVERITY_MAPPING,
\* and so is the damage type of every detection a run has stored.
C18_MappingTotal ==
    /\ \A c \in DOMAIN DAMAGE_CLASS_MAP :
          DAMAGE_CLASS_MAP[c] \in DOMAIN DAMAGE_TO_SEVERITY_MAPPING
    /\ state.damage_detection_result # <<>> =>
          \A i \in 1..Len(state.damage_detection_result[1].detections) :
              state.damage_detection_result[1].detections[i].damage_type
                  \in DOMAIN DAMAGE_TO_SEVERITY_MAPPING

\* Values IOU_THRESHOLD may be tuned to: 0, 1/199, 0.01, 1/3 and 1.
Thresholds == {<<0, 1>>, <<1, 199>>, <<1, 100>>, <<1, 3>>, <<1, 1>>}

\* s is a subsequence of t.
IsSubsequence(s, t) ==
    \E f \in IncreasingMaps(Len(s), Len(t)) : \A j \in 1..Len(s) : s[j] = t[f[j]]

\* The matches of the last direct call, had IOU_THRESHOLD been t; every
\* damage_percentage is taken as 15.
MatchesUnder(damages, t) ==
    AssociateParts(damages, DecodeParts(part_call.boxes), t, [i \in 1..Len(damages) |-> 15])

\* The matches of all the damages of the last direct call, by threshold.
MatchesOfAll ==
    [t \in Thresholds |-> MatchesUnder(part_call.damage_detections, t)]

\* The matches of each damage of the last direct call taken alone, by threshold.
MatchesOfEach ==
    [i \in 1..Len(part_call.damage_detections) |->
        [t \in Thresholds |-> MatchesUnder(<<part_call.damage_detections[i]>>, t)]]

\* C19: for the damages and part boxes of a call and thresholds t1 <= t2, the
\* matches under t2 are a subsequence of the matches under t1, a damage
\* matched under t2 is matched under t1 and to the same part, and the matches
\* of the call itself are those under IOU_THRESHOLD.
C19_ThresholdMonotone ==
    (part_call.called /\ part_call.boxes # <<>>) =>
        \A all \in {MatchesOfAll}, each \in {MatchesOfEach} :
            /\ \A t1 \in Thresholds, t2 \in Thresholds :
                  ~FracGt(t1, t2) =>
                      /\ IsSubsequence(all[t2], all[t1])
                      /\ \A i \in DOMAIN each :
                            each[i][t2] # <<>> => each[i][t1] = each[i][t2]
            /\ Len(part_call.damaged_parts) = Len(all[IOU_THRESHOLD])
            /\ \A j \in 1..Len(part_call.damaged_parts) :
                  /\ part_call.damaged_parts[j].part_name = all[IOU_THRESHOLD][j].part_name
                  /\ part_call.damaged_parts[j].bbox = all[IOU_THRESHOLD][j].bbox

\* A damage of IoU 1/100, matched under 1/199 and not under 0.01, before a
\* damage of IoU 1, matched under every threshold below 1.
C19_Witness ==
    /\ part_call.called
    /\ Len(part_call.damage_detections) = 2
    /\ Len(part_call.boxes) = 1
    /\ FracEq(IouAgainst(part_call.damage_detections[1], part_call.boxes, 1), <<1, 100>>)
    /\ FracEq(IouAgainst(part_call.damage_detections[2], part_call.boxes, 1), <<1, 1>>)
    /\ Len(MatchesUnder(part_call.damage_detections, <<1, 199>>)) = 2
    /\ Len(part_call.damaged_parts) = 1
    /\ MatchesUnder(part_call.damage_detections, <<1, 1>>) = <<>>

\* The spellings of a word that the image paths use.
Spellings(word) ==
    CASE word = "blurry" -> {"blurry", "Blurry"}
      [] word = "dark" -> {"dark", "DARK"}
      [] word = "manipulated" -> {"manipulated", "Manipulated"}

\* The path of the current claim holds the word, in upper or lower case.
PathMentions(word) ==
    \E i \in 1..Len(state.image_path) : state.image_path[i] \in Spellings(word)

\* C20: the quality result follows the image path: processable is false
\* exactly when the path holds "blurry", whatever else it holds; the issues are
\* "blur" for "blurry" and then "low_light" for "dark", and nothing else;
\* manipulation_detected is set exactly when the path holds "manipulated".
C20_QualityFollowsPath ==
    state.quality_check_result # <<>> =>
        LET result == state.quality_check_result[1]
            issues == {result.issues[i] : i \in 1..Len(result.issues)}
        IN  /\ result.processable = ~PathMentions("blurry")
            /\ "blur" \in issues <=> PathMentions("blurry")
            /\ "low_light" \in issues <=> PathMentions("dark")
            /\ issues \subseteq {"blur", "low_light"}
            /\ Len(result.issues) = Cardinality(issues)
            /\ result.manipulation_detected = PathMentions("manipulated")
            /\ (~PathMentions("blurry") /\ ~PathMentions("dark")) => result.issues = <<>>

\* A dark, manipulated image that is not blurry: processable, one issue.
C20_Witness ==
    /\ state.quality_check_result # <<>>
    /\ PathMentions("dark")
    /\ PathMentions("manipulated")
    /\ ~PathMentions("blurry")
    /\ state.quality_check_result[1].processable
    /\ state.quality_check_result[1].manipulation_detected
    /\ state.quality_check_result[1].issues = <<"low_light">>

\* C21: after a call with a non-empty list, the returned repair_time_days is the
\* repair_days of SEVERITY_RULES[overall_severity], and the low bound of the
\* returned cost range is at least the low bound of
\* SEVERITY_RULES[overall_severity].cost_range as the table reads after the
\* call.
C21_ResultAgainstRulesAfterCall ==
    (severity_call.called /\ severity_call.damaged_parts_data # <<>>) =>
        LET result == severity_call.result
            rule == SEVERITY_RULES[result.overall_severity]
        IN  /\ result.overall_severity \in DOMAIN SEVERITY_RULES
            /\ result.repair_time_days = rule.repair_days
            /\ Deref(result.estimated_cost_range, SEVERITY_RULES)[1] >= rule.cost_range[1]

\* A second call of level major, whose low bound was raised twice by 1.1.
C21_Witness ==
    /\ severity_call.called
    /\ severity_calls = 2
    /\ severity_call.result.overall_severity = "major"
    /\ severity_call.result.repair_time_days = 7
    /\ SEVERITY_RULES.major.cost_range[1] = 3630
    /\ Deref(severity_call.result.estimated_cost_range, SEVERITY_RULES)[1] = 3630

\* The run of claim c has ended with its final report.
Reported(c) == state.claim_id = c /\ pc = "END" /\ state.final_report # <<>>

\* C22: every claim that is started, accepted or rejected, driven by invoke or
\* by the streaming consumer, eventually reaches END with its final report.
C22_EveryRunReports ==
    \A c \in 1..MaxRuns : (state.claim_id = c) ~> Reported(c)

\* C23: in a success-path report overall_severity is no_damage_detected exactly
\* when there is no annotation, and otherwise it is the severity of one of the
\* annotations and no annotation has a higher one; affected_parts names the
\* part of each annotation, in order; and total_damages_found is at least the
\* number of annotations.
C23_SummaryMatchesAnnotations ==
    SuccessReported =>
        LET overall == ReportedSummary.overall_severity
            n == Len(ReportedAnnotations)
        IN  /\ overall = "no_damage_detected" <=> n = 0
            /\ n > 0 =>
                  /\ \E i \in 1..n : ReportedAnnotations[i].severity = overall
                  /\ \A i \in 1..n :
                        SeverityRank(ReportedAnnotations[i].severity) <= SeverityRank(overall)
            /\ Len(ReportedSummary.affected_parts) = n
            /\ \A i \in 1..n : ReportedSummary.affected_parts[i] = ReportedAnnotations[i].part
            /\ ReportedSummary.total_damages_found >= n

\* Three damages found, two of them annotated, both on the front bumper.
C23_Witness ==
    /\ SuccessReported
    /\ ReportedSummary.total_damages_found = 3
    /\ Len(ReportedAnnotations) = 2
    /\ ReportedSummary.affected_parts = <<"front_bumper", "front_bumper">>
    /\ ReportedSummary.overall_severity = "moderate"

====
